---- MODULE Spec2Model ----
(***************************************************************************)
(* Daily Code backend (src/backend/server.js): the puzzle of the day, the  *)
(* submission of a finished game, the player statistics and streaks, the   *)
(* daily leaderboard, registration and the read-only routes, as a state    *)
(* machine over the three MongoDB collections.  The routes are modelled    *)
(* twice: each request running to completion, and await by await with      *)
(* several requests in flight.  The sequence generator is modelled as an   *)
(* operator and step by step.                                              *)
(*                                                                         *)
(* Conventions                                                             *)
(*  - a date string "2024-11-0k" is the integer d = k - 1, so that d = 2   *)
(*    is 2024-11-03; string equality of ISO dates is equality of d.        *)
(*  - times are counted in hours since 2024-11-01T00:00Z (day 0).          *)
(*  - an optional field (undefined / null in the source) is a sequence:    *)
(*    <<>> when unset, <<v>> when set.                                     *)
(*  - score is kept in tenths (the source divides time by 10), and         *)
(*    averageGuesses as the exact quotient <<numerator, denominator>> in   *)
(*    lowest terms; IEEE rounding of the quotient is not modelled.         *)
(*  - 32-bit values that do not fit TLC's integers are kept as two 16-bit  *)
(*    halves <<hi, lo>>.                                                   *)
(***************************************************************************)
EXTENDS Integers, Sequences, FiniteSets, TLC

(***************************************************************************)
(* Bounds of the model.                                                    *)
(***************************************************************************)
\* SpecBoard: MaxPlayers players submit for one date, a win carrying
\* guesses in 1..MaxGuesses.
MaxPlayers == 3
MaxGuesses == 3
\* SpecStreak: one player submits for the days 1..MaxDate.
MaxDate == 3
\* Spec: every route, two players and two days, a time of 0 or 1, and at
\* most MaxSubmits game entries stored.
MaxSubmits == 2

\* SpecGen: at most MaxCalls calls of generateDailyCode.
MaxCalls == 2
\* SpecRace: at most MaxFlight requests are in flight together.
MaxFlight == 2

\* The daily board keeps the top 100 entries (server.js:341).  The model
\* scales the cap down to LeaderboardCap < MaxPlayers, so that a board
\* overflows and the truncation acts.
LeaderboardCap == 2

PlayerName == <<"p1", "p2", "p3", "p4", "p5", "p6">>
PlayerIds == {PlayerName[i] : i \in 1..MaxPlayers}
Usernames == {"neo"}
Emails == {"neo@example.org"}
Passwords == {"secret"}
AttemptsSet == {<< <<1, 2, 3, 4>> >>}
BoardTypes == {"daily", "weekly", "alltime"}
Slots == 1..MaxFlight

Half == 65536

\* Strings whose hashCode is 0, 2^31, 2^31 - 1, and seeds whose random
\* stream yields its largest value (2^32 - 1) / 2^32 on the first and on the
\* fourth draw and its smallest value 0 on the first and on the third draw:
\* "", "16C4NAI", "16C4NAH", "4;>7FGA", "15A?NC2", "4:HIM21", "0KL3E80".
SeedStrings ==
    { <<>>,
      <<49, 54, 67, 52, 78, 65, 73>>, <<49, 54, 67, 52, 78, 65, 72>>,
      <<52, 59, 62, 55, 70, 71, 65>>, <<49, 53, 65, 63, 78, 67, 50>>,
      <<52, 58, 72, 73, 77, 50, 49>>, <<48, 75, 76, 51, 69, 56, 48>> }

(***************************************************************************)
(* Date arithmetic of the JavaScript Date object.                          *)
(***************************************************************************)
\* The time zones the server process may run in: its offset from UTC in
\* hours before and after the transition instant `at` (a UTC hour).  In
\* New York daylight saving time ends on 2024-11-03 (day 2) at 06:00Z.
Zones ==
    { [name |-> "UTC", before |-> 0, after |-> 0, at |-> 0],
      [name |-> "America/New_York", before |-> -4, after |-> -5,
       at |-> 24 * 2 + 6] }

\* Offset of local time at UTC hour t.
OffsetAt(zone, t) == IF t < zone.at THEN zone.before ELSE zone.after

\* LocalTime(t): the local wall clock, in hours, at UTC hour t.
LocalTime(zone, t) == t + OffsetAt(zone, t)

\* UTC(local): a wall clock that occurs twice or never is read with the
\* offset in force before the transition.
UTCOf(zone, local) ==
    IF local - zone.before < zone.at THEN local - zone.before
    ELSE IF local - zone.after >= zone.at THEN local - zone.after
    ELSE local - zone.before

\* new Date("YYYY-MM-DD"): a date-only ISO string is midnight UTC.
ParseDate(d) == 24 * d

\* x.toISOString().split('T')[0]: the UTC calendar day of an instant.
ToISODate(t) == t \div 24

\* x.setDate(x.getDate() + delta): the same wall clock delta local days away.
SetDateBy(zone, t, delta) == UTCOf(zone, LocalTime(zone, t) + 24 * delta)

\* The submit route's yesterdayString for the submitted date.
YesterdayString(zone, d) == ToISODate(SetDateBy(zone, ParseDate(d), -1))

\* The characters of the date string of day d ("2024-11-0k", k = d + 1).
DateChars(d) == <<50, 48, 50, 52, 45, 49, 49, 45, 48, 48 + d + 1>>

(***************************************************************************)
(* The deterministic sequence generator.                                   *)
(***************************************************************************)
\* One step of hashCode's loop on the unsigned 32-bit image <<hi, lo>>:
\* hash = ((hash << 5) - hash) + char; hash = hash & hash.
HashStep(h, char) ==
    LET lo == 31 * h[2] + char
        hi == 31 * h[1] + (lo \div Half)
    IN  <<hi % Half, lo % Half>>

RECURSIVE HashLoop(_, _, _)
HashLoop(str, i, h) ==
    IF i > Len(str) THEN h ELSE HashLoop(str, i + 1, HashStep(h, str[i]))

\* Math.abs of the signed reading of <<hi, lo>>, again as <<hi, lo>>
\* (the absolute value of -2^31 is 2^31 = <<32768, 0>>).
Abs32(h) ==
    IF h[1] < 32768 THEN h
    ELSE LET lo == (Half - h[2]) % Half
             borrow == IF h[2] = 0 THEN 0 ELSE 1
         IN  <<(Half - h[1] - borrow) % Half, lo>>

hashCode(str) == Abs32(HashLoop(str, 1, <<0, 0>>))

\* state = (state * 1664525 + 1013904223) % 4294967296, with
\* 1664525 = 25 * 65536 + 26125 and 1013904223 = 15470 * 65536 + 62303.
LcgStep(s) ==
    LET lo == s[2] * 26125 + 62303
        hi == ((s[2] * 25) % Half) + ((s[1] * 26125) % Half) + 15470
              + (lo \div Half)
    IN  <<hi % Half, lo % Half>>

\* Math.floor((state / 4294967296) * n) for 1 <= n <= 6.
FloorTimes(s, n) == (s[1] * n + ((s[2] * n) \div Half)) \div Half

\* numbers.filter(n => !code.includes(n)), in ascending order.
RECURSIVE FilterFrom(_, _)
FilterFrom(n, code) ==
    IF n > 6 THEN <<>>
    ELSE (IF \E k \in 1..Len(code) : code[k] = n THEN <<>> ELSE <<n>>)
         \o FilterFrom(n + 1, code)

\* Variant of AvailableNumbers: the numbers already drawn stay in the pool.
AvailableNumbersUnfiltered(code, allowDuplicates) == <<1, 2, 3, 4, 5, 6>>

AvailableNumbers(code, allowDuplicates) ==
    IF allowDuplicates THEN <<1, 2, 3, 4, 5, 6>> ELSE FilterFrom(1, code)

RECURSIVE GenLoop(_, _, _, _)
GenLoop(i, state, code, allowDuplicates) ==
    IF i >= 4 THEN code
    ELSE LET next == LcgStep(state)
             avail == AvailableNumbers(code, allowDuplicates)
             randomIndex == FloorTimes(next, Len(avail))
         IN  GenLoop(i + 1, next, Append(code, avail[randomIndex + 1]),
                     allowDuplicates)

generateDailyCode(dateChars, allowDuplicates) ==
    GenLoop(0, hashCode(dateChars), <<>>, allowDuplicates)

(***************************************************************************)
(* The state: the environment of the process and the three collections.    *)
(***************************************************************************)
VARIABLES
    tz,             \* the time zone the server process runs in
    today,          \* the UTC calendar day of the server clock
    puzzles,        \* DailyPuzzle collection, keyed by its unique date
    players,        \* Player collection, keyed by its unique playerId
    leaderboards,   \* Leaderboard collection: documents in insertion order
    res,            \* HTTP status of the last response
    served,         \* history: the submits answered with success
    peakStreak,     \* history: the largest currentStreak a player has held
    call,           \* the generateDailyCode call in progress
    returned,       \* history: the calls of generateDailyCode that returned
    inflight        \* the requests suspended at an await

vars == <<tz, today, puzzles, players, leaderboards, res, served, peakStreak,
          call, returned, inflight>>

\* What a request that runs to completion leaves alone.
pending == <<call, returned, inflight>>

\* Schema defaults of a new DailyPuzzle({date, solution}).
NewPuzzle(date, solution) ==
    [date |-> date, solution |-> solution, totalPlayers |-> 0,
     completedPlayers |-> 0, fastestTime |-> <<>>, fastestPlayer |-> <<>>,
     averageGuesses |-> <<0, 1>>, totalGuesses |-> 0]

\* Schema defaults of a new Player({playerId}).
NewPlayer(playerId) ==
    [playerId |-> playerId, email |-> <<>>, username |-> <<>>,
     passwordHash |-> <<>>,
     stats |-> [gamesPlayed |-> 0, gamesWon |-> 0, currentStreak |-> 0,
                maxStreak |-> 0, totalGuesses |-> 0, lastPlayDate |-> <<>>,
                fastestTime |-> <<>>],
     games |-> <<>>]

\* new Leaderboard({date, type, entries: []}).
NewLeaderboard(date, type) == [date |-> date, type |-> type, entries |-> <<>>]

\* No call of generateDailyCode is in progress.
NoCall ==
    [pc |-> "idle", dateString |-> <<>>, allowDuplicates |-> FALSE,
     state |-> <<0, 0>>, i |-> 0, code |-> <<>>, calls |-> 0]

\* A slot of the event loop that holds no request.
NoRequest == [pc |-> "idle"]

Init ==
    /\ tz \in Zones
    /\ today = 1
    /\ puzzles = <<>>
    /\ players = <<>>
    /\ leaderboards = <<>>
    /\ res = 0
    /\ served = {}
    /\ peakStreak = [p \in PlayerIds |-> 0]
    /\ call = NoCall
    /\ returned = {}
    /\ inflight = [r \in Slots |-> NoRequest]

(***************************************************************************)
(* Helpers of the routes.                                                  *)
(***************************************************************************)
Max(a, b) == IF a >= b THEN a ELSE b

RECURSIVE Gcd(_, _)
Gcd(a, b) == IF b = 0 THEN a ELSE Gcd(b, a % b)

\* The quotient n / d (d > 0) in lowest terms.
Quotient(n, d) == LET g == Gcd(n, d) IN <<n \div g, d \div g>>

\* Collection.findOne by key and document.save() (insert or replace).
FindOne(coll, key) == IF key \in DOMAIN coll THEN <<coll[key]>> ELSE <<>>
Save(coll, key, doc) ==
    [k \in DOMAIN coll \cup {key} |-> IF k = key THEN doc ELSE coll[k]]

\* JavaScript truthiness of an optional number: unset and 0 are falsy.
Falsy(opt) == opt = <<>> \/ opt[1] = 0

\* Variant of ExistingGame: only a won game counts as played.
ExistingGameWonOnly(player, date) ==
    \E k \in 1..Len(player.games) :
        player.games[k].date = date /\ player.games[k].won

\* player.games.find(g => g.date === date)
ExistingGame(player, date) ==
    \E k \in 1..Len(player.games) : player.games[k].date = date

\* The streak after a win (server.js:197-201).
StreakAfterWin(stats, yesterdayString) ==
    IF stats.lastPlayDate = <<yesterdayString>>
    THEN stats.currentStreak + 1
    ELSE 1

\* Variant of MaxStreakAfter: maxStreak follows currentStreak.
MaxStreakOverwrite(maxStreak, currentStreak) == currentStreak

\* Math.max(player.stats.maxStreak, player.stats.currentStreak)
MaxStreakAfter(maxStreak, currentStreak) == Max(maxStreak, currentStreak)

\* if (!fastestTime || time < fastestTime) fastestTime = time
Improves(fastestTime, time) == Falsy(fastestTime) \/ time < fastestTime[1]

\* Variant of StatsAfterSubmit: gamesPlayed and lastPlayDate are updated
\* inside the branch of a win.
StatsAfterSubmitOnWin(stats, zone, date, won, guesses, time) ==
    LET streak == IF won
                  THEN StreakAfterWin(stats, YesterdayString(zone, date))
                  ELSE 0
    IN  [gamesPlayed |-> IF won THEN stats.gamesPlayed + 1
                         ELSE stats.gamesPlayed,
         gamesWon |-> IF won THEN stats.gamesWon + 1 ELSE stats.gamesWon,
         currentStreak |-> streak,
         maxStreak |-> IF won THEN MaxStreakAfter(stats.maxStreak, streak)
                       ELSE stats.maxStreak,
         totalGuesses |-> IF won THEN stats.totalGuesses + guesses
                          ELSE stats.totalGuesses,
         lastPlayDate |-> IF won THEN <<date>> ELSE stats.lastPlayDate,
         fastestTime |-> IF won /\ Improves(stats.fastestTime, time)
                         THEN <<time>> ELSE stats.fastestTime]

\* The player's stats after the submit (server.js:187-212).
StatsAfterSubmit(stats, zone, date, won, guesses, time) ==
    LET streak == IF won
                  THEN StreakAfterWin(stats, YesterdayString(zone, date))
                  ELSE 0
    IN  [gamesPlayed |-> stats.gamesPlayed + 1,
         gamesWon |-> IF won THEN stats.gamesWon + 1 ELSE stats.gamesWon,
         currentStreak |-> streak,
         maxStreak |-> IF won THEN MaxStreakAfter(stats.maxStreak, streak)
                       ELSE stats.maxStreak,
         totalGuesses |-> IF won THEN stats.totalGuesses + guesses
                          ELSE stats.totalGuesses,
         lastPlayDate |-> <<date>>,
         fastestTime |-> IF won /\ Improves(stats.fastestTime, time)
                         THEN <<time>> ELSE stats.fastestTime]

\* The player document as saved at server.js:223.
PlayerAfterSubmit(player, zone, date, won, guesses, time, attempts) ==
    [player EXCEPT
        !.stats = StatsAfterSubmit(player.stats, zone, date, won, guesses, time),
        !.games = Append(player.games,
                         [date |-> date, won |-> won, guesses |-> guesses,
                          time |-> time, attempts |-> attempts])]

\* player.username || fallback
UsernameOr(player, fallback) ==
    IF player.username = <<>> THEN fallback ELSE player.username[1]

\* Variant of PuzzleAfterSubmit: totalPlayers is counted on a loss only.
PuzzleAfterSubmitLossOnly(puzzle, player, won, guesses, time) ==
    IF ~won THEN [puzzle EXCEPT !.totalPlayers = puzzle.totalPlayers + 1]
    ELSE LET completed == puzzle.completedPlayers + 1
             total == puzzle.totalGuesses + guesses
             faster == Improves(puzzle.fastestTime, time)
         IN  [puzzle EXCEPT
                !.completedPlayers = completed,
                !.totalGuesses = total,
                !.averageGuesses = Quotient(total, completed),
                !.fastestTime = IF faster THEN <<time>> ELSE @,
                !.fastestPlayer =
                    IF faster THEN <<UsernameOr(player, player.playerId)>>
                    ELSE @]

\* Variant of PuzzleAfterSubmit: the average is taken over totalPlayers.
PuzzleAfterSubmitAverageOfAll(puzzle, player, won, guesses, time) ==
    IF ~won THEN [puzzle EXCEPT !.totalPlayers = puzzle.totalPlayers + 1]
    ELSE LET completed == puzzle.completedPlayers + 1
             total == puzzle.totalGuesses + guesses
             faster == Improves(puzzle.fastestTime, time)
         IN  [puzzle EXCEPT
                !.totalPlayers = puzzle.totalPlayers + 1,
                !.completedPlayers = completed,
                !.totalGuesses = total,
                !.averageGuesses = Quotient(total, puzzle.totalPlayers + 1),
                !.fastestTime = IF faster THEN <<time>> ELSE @,
                !.fastestPlayer =
                    IF faster THEN <<UsernameOr(player, player.playerId)>>
                    ELSE @]

\* The puzzle document as saved at server.js:239.
PuzzleAfterSubmit(puzzle, player, won, guesses, time) ==
    IF ~won THEN [puzzle EXCEPT !.totalPlayers = puzzle.totalPlayers + 1]
    ELSE LET completed == puzzle.completedPlayers + 1
             total == puzzle.totalGuesses + guesses
             faster == Improves(puzzle.fastestTime, time)
         IN  [puzzle EXCEPT
                !.totalPlayers = puzzle.totalPlayers + 1,
                !.completedPlayers = completed,
                !.totalGuesses = total,
                !.averageGuesses = Quotient(total, completed),
                !.fastestTime = IF faster THEN <<time>> ELSE @,
                !.fastestPlayer =
                    IF faster THEN <<UsernameOr(player, player.playerId)>>
                    ELSE @]

\* score = 1000 - (guesses * 100) - (time / 10), in tenths.
Score(guesses, time) == 10000 - (guesses * 1000) - time

\* Array.prototype.sort((a, b) => b.score - a.score): a stable sort,
\* descending by score.
RECURSIVE InsertSorted(_, _)
InsertSorted(sorted, e) ==
    IF sorted = <<>> THEN <<e>>
    ELSE IF Head(sorted).score >= e.score
         THEN <<Head(sorted)>> \o InsertSorted(Tail(sorted), e)
         ELSE <<e>> \o sorted

\* Variant of SortEntries: the comparator is a.score - b.score.
RECURSIVE InsertAscending(_, _)
InsertAscending(sorted, e) ==
    IF sorted = <<>> THEN <<e>>
    ELSE IF Head(sorted).score <= e.score
         THEN <<Head(sorted)>> \o InsertAscending(Tail(sorted), e)
         ELSE <<e>> \o sorted

RECURSIVE SortAscending(_)
SortAscending(entries) ==
    IF entries = <<>> THEN <<>>
    ELSE InsertAscending(SortAscending(SubSeq(entries, 1, Len(entries) - 1)),
                         entries[Len(entries)])

RECURSIVE SortEntries(_)
SortEntries(entries) ==
    IF entries = <<>> THEN <<>>
    ELSE InsertSorted(SortEntries(SubSeq(entries, 1, Len(entries) - 1)),
                      entries[Len(entries)])

\* Variant of KeepTop: slice(-100) keeps the last entries.
KeepBottom(entries) ==
    SubSeq(entries,
           IF Len(entries) < LeaderboardCap THEN 1
           ELSE Len(entries) - LeaderboardCap + 1,
           Len(entries))

\* entries.slice(0, 100)
KeepTop(entries) ==
    SubSeq(entries, 1, IF Len(entries) < LeaderboardCap THEN Len(entries)
                       ELSE LeaderboardCap)

\* Leaderboard.findOne({date, type}): the index of the first matching
\* document, 0 when there is none.
FindBoard(boards, date, type) ==
    LET hits == {k \in 1..Len(boards) :
                    boards[k].date = date /\ boards[k].type = type}
    IN  IF hits = {} THEN 0
        ELSE CHOOSE k \in hits : \A j \in hits : k <= j

\* The entry pushed at server.js:332-338.
BoardEntry(player, guesses, time) ==
    [playerId |-> player.playerId,
     username |-> UsernameOr(player, "Anonymous"),
     score |-> Score(guesses, time), time |-> time, guesses |-> guesses]

\* The entries of the daily board after the push, the sort and the slice.
EntriesAfterPush(entries, entry) == KeepTop(SortEntries(Append(entries, entry)))

\* Variant of updateLeaderboards without the early return on a loss.
updateLeaderboardsAnyResult(boards, date, player, won, guesses, time) ==
    LET k == FindBoard(boards, date, "daily")
        dailyBoard == IF k = 0 THEN NewLeaderboard(date, "daily")
                      ELSE boards[k]
        saved == [dailyBoard EXCEPT
                     !.entries = EntriesAfterPush(
                         @, BoardEntry(player, guesses, time))]
    IN  IF k = 0 THEN Append(boards, saved)
        ELSE [boards EXCEPT ![k] = saved]

\* updateLeaderboards(date, player, won, guesses, time): the collection
\* after the call.
updateLeaderboards(boards, date, player, won, guesses, time) ==
    IF ~won THEN boards
    ELSE LET k == FindBoard(boards, date, "daily")
             dailyBoard == IF k = 0 THEN NewLeaderboard(date, "daily")
                           ELSE boards[k]
             saved == [dailyBoard EXCEPT
                          !.entries = EntriesAfterPush(
                              @, BoardEntry(player, guesses, time))]
         IN  IF k = 0 THEN Append(boards, saved)
             ELSE [boards EXCEPT ![k] = saved]

(***************************************************************************)
(* The routes, each request running to completion.                         *)
(***************************************************************************)
\* The server clock passes midnight UTC.
Tick(lastDay) ==
    /\ today < lastDay
    /\ today' = today + 1
    /\ UNCHANGED <<pending, tz, puzzles, players, leaderboards, res, served,
                   peakStreak>>

\* Variant of GetPuzzleToday that generates and saves on every read.
GetPuzzleTodayRegenerate(duplicates) ==
    /\ puzzles' = Save(puzzles, today,
                       NewPuzzle(today,
                           generateDailyCode(DateChars(today), duplicates)))
    /\ res' = 200
    /\ UNCHANGED <<pending, tz, today, players, leaderboards, served, peakStreak>>

\* GET /api/puzzle/today?duplicates=...
GetPuzzleToday(duplicates) ==
    /\ puzzles' = IF FindOne(puzzles, today) = <<>>
                  THEN Save(puzzles, today,
                            NewPuzzle(today,
                                generateDailyCode(DateChars(today), duplicates)))
                  ELSE puzzles
    /\ res' = 200
    /\ UNCHANGED <<pending, tz, today, players, leaderboards, served, peakStreak>>

\* GET /api/puzzle/yesterday, at hour `hour` of the current UTC day.
GetPuzzleYesterday(hour) ==
    LET now == 24 * today + hour
        dateString == ToISODate(SetDateBy(tz, now, -1))
    IN  /\ res' = IF FindOne(puzzles, dateString) # <<>> THEN 200 ELSE 404
        /\ UNCHANGED <<pending, tz, today, puzzles, players, leaderboards, served,
                       peakStreak>>

\* POST /api/game/submit
Submit(playerId, date, won, guesses, time, attempts) ==
    LET found == FindOne(players, playerId)
        player == IF found = <<>> THEN NewPlayer(playerId) ELSE found[1]
    IN  IF ExistingGame(player, date)
        THEN /\ res' = 400
             /\ UNCHANGED <<pending, tz, today, puzzles, players, leaderboards, served,
                            peakStreak>>
        ELSE LET saved == PlayerAfterSubmit(player, tz, date, won, guesses,
                                            time, attempts)
                 puzzle == FindOne(puzzles, date)
             IN  /\ players' = Save(players, playerId, saved)
                 /\ peakStreak' =
                        [peakStreak EXCEPT
                            ![playerId] = Max(@, saved.stats.currentStreak)]
                 /\ IF puzzle # <<>>
                    THEN /\ puzzles' = Save(puzzles, date,
                                PuzzleAfterSubmit(puzzle[1], saved, won,
                                                  guesses, time))
                         /\ leaderboards' = updateLeaderboards(
                                leaderboards, date, saved, won, guesses, time)
                         /\ res' = 200
                         /\ served' = served \cup
                                {[playerId |-> playerId, date |-> date,
                                  won |-> won, guesses |-> guesses,
                                  time |-> time]}
                    ELSE \* puzzle.totalPlayers of null throws: the catch
                         \* block answers 500 after the player was saved.
                         /\ res' = 500
                         /\ UNCHANGED <<puzzles, leaderboards, served>>
                 /\ UNCHANGED <<pending, tz, today>>

\* GET /api/player/:playerId/stats
GetPlayerStats(playerId) ==
    /\ res' = 200
    /\ UNCHANGED <<pending, tz, today, puzzles, players, leaderboards, served,
                   peakStreak>>

\* GET /api/leaderboard/:type?date=...; `date` is <<>> when the query has
\* none.  The body of a response is not part of the model.
GetLeaderboard(type, date) ==
    /\ res' = 200
    /\ UNCHANGED <<pending, tz, today, puzzles, players, leaderboards, served,
                   peakStreak>>

\* POST /api/auth/register
Register(username, email, password, playerId) ==
    LET existing == \E q \in DOMAIN players :
                        \/ players[q].username = <<username>>
                        \/ players[q].email = <<email>>
        found == FindOne(players, playerId)
        player == IF found = <<>> THEN NewPlayer(playerId) ELSE found[1]
    IN  /\ IF existing
           THEN res' = 400 /\ UNCHANGED players
           ELSE /\ players' = Save(players, playerId,
                        [player EXCEPT !.username = <<username>>,
                                       !.email = <<email>>,
                                       !.passwordHash = <<password>>])
                /\ res' = 200
        /\ UNCHANGED <<pending, tz, today, puzzles, leaderboards, served, peakStreak>>

(***************************************************************************)
(* generateDailyCode step by step: the call, each turn of its loop and the *)
(* return.  The call is synchronous: no request runs while it is in        *)
(* progress.  The locals of the last call stay in `call` until the next.   *)
(***************************************************************************)
\* What the collections and the responses are.
stored == <<tz, today, puzzles, players, leaderboards, res, served, peakStreak>>

\* Variant of GenCall: the generator state is a module-level variable that
\* is seeded by the first call only.
GenCallSharedState(dateString, allowDuplicates) ==
    /\ call.pc = "idle"
    /\ call.calls < MaxCalls
    /\ call' = [pc |-> "loop", dateString |-> dateString,
                allowDuplicates |-> allowDuplicates,
                state |-> IF call.calls = 0 THEN hashCode(dateString)
                          ELSE call.state,
                i |-> 0, code |-> <<>>, calls |-> call.calls + 1]
    /\ UNCHANGED <<stored, returned, inflight>>

\* seed = hashCode(dateString); rng = seededRandom(seed); code = [].
GenCall(dateString, allowDuplicates) ==
    /\ call.pc = "idle"
    /\ call.calls < MaxCalls
    /\ call' = [pc |-> "loop", dateString |-> dateString,
                allowDuplicates |-> allowDuplicates,
                state |-> hashCode(dateString),
                i |-> 0, code |-> <<>>, calls |-> call.calls + 1]
    /\ UNCHANGED <<stored, returned, inflight>>

\* The pool and the index of the coming turn of the loop.
PoolOf(c) == AvailableNumbers(c.code, c.allowDuplicates)
IndexOf(c) == FloorTimes(LcgStep(c.state), Len(PoolOf(c)))

\* One turn of the loop (server.js:82-89).  An index outside the pool
\* reads undefined, written 0.
GenIterate ==
    /\ call.pc = "loop"
    /\ call.i < 4
    /\ LET availableNumbers == PoolOf(call)
           randomIndex == IndexOf(call)
       IN  call' = [call EXCEPT
                       !.state = LcgStep(@),
                       !.i = @ + 1,
                       !.code = Append(@,
                           IF randomIndex + 1 \in DOMAIN availableNumbers
                           THEN availableNumbers[randomIndex + 1] ELSE 0)]
    /\ UNCHANGED <<stored, returned, inflight>>

\* return code
GenReturn ==
    /\ call.pc = "loop"
    /\ call.i >= 4
    /\ call' = [call EXCEPT !.pc = "idle"]
    /\ returned' = returned \cup
           {[dateString |-> call.dateString,
             allowDuplicates |-> call.allowDuplicates, code |-> call.code]}
    /\ UNCHANGED <<stored, inflight>>

(***************************************************************************)
(* The routes await by await.  A handler runs from one awaited database    *)
(* call to the next without interruption; between two of its steps the     *)
(* steps of the other requests in flight may run.  inflight[r] holds the   *)
(* request of slot r: its parameters and the documents it has in memory.   *)
(***************************************************************************)
\* The slot answers with `status` and is free again.
Respond(r, status) ==
    /\ res' = status
    /\ inflight' = [inflight EXCEPT ![r] = NoRequest]

\* Variant of DuplicateKey: the collection has no unique index.
DuplicateKeyNever(coll, key) == FALSE

\* The unique index of a collection rejects the insert of a second
\* document with the key.
DuplicateKey(coll, key) == key \in DOMAIN coll

\* Variant of SaveModified: a changed number is sent as an increment of the
\* stored value by the change.
SaveModifiedIncrement(storedDoc, readDoc, doc) ==
    [f \in DOMAIN storedDoc |->
        IF doc[f] = readDoc[f] THEN storedDoc[f]
        ELSE IF f = "totalPlayers" THEN storedDoc[f] + (doc[f] - readDoc[f])
        ELSE doc[f]]

\* save() of a document that was read from the collection: the update sets
\* the paths whose value changed since the read and leaves the others as
\* they are stored.
SaveModified(storedDoc, readDoc, doc) ==
    [f \in DOMAIN storedDoc |->
        IF doc[f] # readDoc[f] THEN doc[f] ELSE storedDoc[f]]

\* POST /api/game/submit arrives in slot r.  The requests in flight are by
\* different players.
SubmitReceive(r, playerId, date, won, guesses, time, attempts) ==
    /\ inflight[r].pc = "idle"
    /\ \A q \in Slots :
           (inflight[q].pc # "idle" /\ inflight[q].route = "submit")
               => inflight[q].playerId # playerId
    /\ inflight' = [inflight EXCEPT ![r] =
           [pc |-> "Player.findOne", route |-> "submit",
            playerId |-> playerId, date |-> date, won |-> won,
            guesses |-> guesses, time |-> time, attempts |-> attempts]]
    /\ UNCHANGED <<stored, call, returned>>

\* await Player.findOne, and the code up to player.save() (175-221).
SubmitPlayerFindOne(r) ==
    /\ inflight[r].pc = "Player.findOne"
    /\ LET q == inflight[r]
           found == FindOne(players, q.playerId)
           player == IF found = <<>> THEN NewPlayer(q.playerId) ELSE found[1]
       IN  IF ExistingGame(player, q.date)
           THEN Respond(r, 400)
           ELSE /\ inflight' = [inflight EXCEPT ![r] =
                       [pc |-> "player.save", isNew |-> found = <<>>,
                        player |-> PlayerAfterSubmit(player, tz, q.date,
                                       q.won, q.guesses, q.time, q.attempts)]
                       @@ q]
                /\ UNCHANGED res
    /\ UNCHANGED <<tz, today, puzzles, players, leaderboards, served,
                   peakStreak, call, returned>>

\* await player.save() (223).
SubmitPlayerSave(r) ==
    /\ inflight[r].pc = "player.save"
    /\ LET q == inflight[r]
       IN  IF q.isNew /\ DuplicateKey(players, q.playerId)
           THEN Respond(r, 500) /\ UNCHANGED <<players, peakStreak>>
           ELSE /\ players' = Save(players, q.playerId, q.player)
                /\ peakStreak' =
                       [peakStreak EXCEPT
                           ![q.playerId] =
                               Max(@, q.player.stats.currentStreak)]
                /\ inflight' = [inflight EXCEPT
                                   ![r].pc = "DailyPuzzle.findOne"]
                /\ UNCHANGED res
    /\ UNCHANGED <<tz, today, puzzles, leaderboards, served, call, returned>>

\* await DailyPuzzle.findOne, and the code up to puzzle.save() (226-238);
\* without a puzzle the response reads a field of null and the catch
\* block answers 500.
SubmitPuzzleFindOne(r) ==
    /\ inflight[r].pc = "DailyPuzzle.findOne"
    /\ inflight[r].route = "submit"
    /\ LET q == inflight[r]
           puzzle == FindOne(puzzles, q.date)
       IN  IF puzzle = <<>>
           THEN Respond(r, 500)
           ELSE /\ inflight' = [inflight EXCEPT ![r] =
                       [pc |-> "puzzle.save", readPuzzle |-> puzzle[1],
                        puzzle |-> PuzzleAfterSubmit(puzzle[1], q.player,
                                       q.won, q.guesses, q.time)]
                       @@ q]
                /\ UNCHANGED res
    /\ UNCHANGED <<tz, today, puzzles, players, leaderboards, served,
                   peakStreak, call, returned>>

\* The submit of slot r is answered with success (245-254).
SubmitRespond(r) ==
    /\ Respond(r, 200)
    /\ served' = served \cup
           {[playerId |-> inflight[r].playerId, date |-> inflight[r].date,
             won |-> inflight[r].won, guesses |-> inflight[r].guesses,
             time |-> inflight[r].time]}

\* await puzzle.save() (239); updateLeaderboards returns at once on a loss.
SubmitPuzzleSave(r) ==
    /\ inflight[r].pc = "puzzle.save"
    /\ inflight[r].route = "submit"
    /\ LET q == inflight[r]
       IN  /\ puzzles' = Save(puzzles, q.date,
                   SaveModified(puzzles[q.date], q.readPuzzle, q.puzzle))
           /\ IF q.won
              THEN /\ inflight' = [inflight EXCEPT
                                      ![r].pc = "Leaderboard.findOne"]
                   /\ UNCHANGED <<res, served>>
              ELSE SubmitRespond(r)
    /\ UNCHANGED <<tz, today, players, leaderboards, peakStreak, call,
                   returned>>

\* await Leaderboard.findOne, and the code up to dailyBoard.save()
\* (325-341).  boardId is the position of the document read, 0 for a new
\* document.
SubmitBoardFindOne(r) ==
    /\ inflight[r].pc = "Leaderboard.findOne"
    /\ LET q == inflight[r]
           k == FindBoard(leaderboards, q.date, "daily")
           dailyBoard == IF k = 0 THEN NewLeaderboard(q.date, "daily")
                         ELSE leaderboards[k]
       IN  inflight' = [inflight EXCEPT ![r] =
               [pc |-> "dailyBoard.save", boardId |-> k,
                readBoard |-> dailyBoard,
                dailyBoard |-> [dailyBoard EXCEPT
                    !.entries = EntriesAfterPush(
                        @, BoardEntry(q.player, q.guesses, q.time))]]
               @@ q]
    /\ UNCHANGED <<stored, call, returned>>

\* await dailyBoard.save() (343): a new document is inserted; a document
\* that was read replaces its entries.  When the stored entries changed
\* since the read, the save either fails on the document's version
\* (`versioned`) and the catch block answers 500, or overwrites them.
SubmitBoardSave(r, versioned) ==
    /\ inflight[r].pc = "dailyBoard.save"
    /\ LET q == inflight[r]
           stale == q.boardId # 0
                    /\ leaderboards[q.boardId] # q.readBoard
       IN  IF stale /\ versioned
           THEN Respond(r, 500) /\ UNCHANGED <<leaderboards, served>>
           ELSE /\ leaderboards' =
                       IF q.boardId = 0
                       THEN Append(leaderboards, q.dailyBoard)
                       ELSE [leaderboards EXCEPT
                                ![q.boardId].entries = q.dailyBoard.entries]
                /\ SubmitRespond(r)
    /\ UNCHANGED <<tz, today, puzzles, players, peakStreak, call, returned>>

\* GET /api/puzzle/today arrives in slot r (117).
TodayReceive(r, duplicates) ==
    /\ inflight[r].pc = "idle"
    /\ inflight' = [inflight EXCEPT ![r] =
           [pc |-> "DailyPuzzle.findOne", route |-> "today",
            date |-> today, duplicates |-> duplicates]]
    /\ UNCHANGED <<stored, call, returned>>

\* await DailyPuzzle.findOne, and the generation of the solution (118-126).
TodayFindOne(r) ==
    /\ inflight[r].pc = "DailyPuzzle.findOne"
    /\ inflight[r].route = "today"
    /\ LET q == inflight[r]
       IN  IF FindOne(puzzles, q.date) # <<>>
           THEN Respond(r, 200)
           ELSE /\ inflight' = [inflight EXCEPT ![r] =
                       [pc |-> "puzzle.save",
                        puzzle |-> NewPuzzle(q.date,
                            generateDailyCode(DateChars(q.date),
                                              q.duplicates))]
                       @@ q]
                /\ UNCHANGED res
    /\ UNCHANGED <<tz, today, puzzles, players, leaderboards, served,
                   peakStreak, call, returned>>

\* await puzzle.save() of the new puzzle (127): the insert fails on the
\* unique index of date when another request has inserted the date.
TodayPuzzleSave(r) ==
    /\ inflight[r].pc = "puzzle.save"
    /\ inflight[r].route = "today"
    /\ LET q == inflight[r]
       IN  IF DuplicateKey(puzzles, q.date)
           THEN Respond(r, 500) /\ UNCHANGED puzzles
           ELSE Respond(r, 200) /\ puzzles' = Save(puzzles, q.date, q.puzzle)
    /\ UNCHANGED <<tz, today, players, leaderboards, served, peakStreak,
                   call, returned>>

(***************************************************************************)
(* Specifications.  The requests are drawn from bounded sets.              *)
(***************************************************************************)
RECURSIVE SumOver(_, _)
SumOver(S, f) ==
    IF S = {} THEN 0
    ELSE LET x == CHOOSE y \in S : TRUE IN f[x] + SumOver(S \ {x}, f)

\* The number of game entries stored, over all players.
GamesStored ==
    SumOver(DOMAIN players, [q \in DOMAIN players |-> Len(players[q].games)])

\* The results a client reports: a win after 1..maxGuesses guesses with a
\* time in 0..maxTime, or a loss after maxGuesses guesses and maxTime.
Results(maxGuesses, maxTime) ==
    [won : {TRUE}, guesses : 1..maxGuesses, time : 0..maxTime]
    \cup [won : {FALSE}, guesses : {maxGuesses}, time : {maxTime}]

\* A submit request with its fields drawn from the given sets.
SubmitFrom(ids, dates, results) ==
    \E playerId \in ids, date \in dates, r \in results,
       attempts \in AttemptsSet :
        Submit(playerId, date, r.won, r.guesses, r.time, attempts)

\* Spec: every route, two players and two days.
RouteIds == {PlayerName[1], PlayerName[2]}
RouteDates == {1, 2}

Next ==
    \/ Tick(CHOOSE d \in RouteDates : \A e \in RouteDates : e <= d)
    \/ \E duplicates \in BOOLEAN : GetPuzzleToday(duplicates)
    \/ \E hour \in {0, 23} : GetPuzzleYesterday(hour)
    \/ /\ GamesStored < MaxSubmits
       /\ SubmitFrom(RouteIds, RouteDates, Results(1, 1))
    \/ \E playerId \in RouteIds : GetPlayerStats(playerId)
    \/ \E type \in BoardTypes, date \in {<<>>, <<1>>} :
          GetLeaderboard(type, date)
    \/ \E username \in Usernames, email \in Emails, password \in Passwords,
          playerId \in RouteIds : Register(username, email, password, playerId)

\* The server process of Spec and SpecBoard runs in UTC: with the days they
\* cover, the time zone changes no date these routes compute.
InitUTC == Init /\ tz.name = "UTC"

Spec == InitUTC /\ [][Next]_vars

\* SpecBoard: MaxPlayers players submit for the first day.
BoardNext ==
    \/ \E duplicates \in BOOLEAN : GetPuzzleToday(duplicates)
    \/ SubmitFrom(PlayerIds, {1}, Results(MaxGuesses, 0))

SpecBoard == InitUTC /\ [][BoardNext]_vars

\* SpecStreak: one player submits for the days 1..MaxDate, in any order.
StreakNext ==
    \/ Tick(MaxDate)
    \/ GetPuzzleToday(FALSE)
    \/ SubmitFrom({PlayerName[1]}, 1..MaxDate, Results(1, 0))

SpecStreak == Init /\ [][StreakNext]_vars

\* SpecStreakUTC: the same requests, the server process running in UTC.
SpecStreakUTC == InitUTC /\ [][StreakNext]_vars

\* SpecGen: at most MaxCalls calls of generateDailyCode, on the date strings
\* of the days 0..MaxDate and on SeedStrings, with puzzle reads and submits
\* between the calls.
GenStrings == {DateChars(d) : d \in 0..MaxDate} \cup SeedStrings

GenNext ==
    \/ \E dateString \in GenStrings, allowDuplicates \in BOOLEAN :
          GenCall(dateString, allowDuplicates)
    \/ GenIterate
    \/ GenReturn
    \/ /\ call.pc = "idle"
       /\ \E duplicates \in BOOLEAN : GetPuzzleToday(duplicates)
    \/ /\ call.pc = "idle"
       /\ SubmitFrom({PlayerName[1]}, {1}, Results(1, 0))

SpecGen == InitUTC /\ [][GenNext]_vars

\* SpecRace: at most MaxFlight requests in flight, puzzle reads and submits
\* for the first day; the submits that slot r carries are those of player r.
RaceNext ==
    \E r \in Slots :
        \/ \E q \in Results(1, 0), attempts \in AttemptsSet :
              SubmitReceive(r, PlayerName[r], 1, q.won, q.guesses, q.time,
                            attempts)
        \/ SubmitPlayerFindOne(r)
        \/ SubmitPlayerSave(r)
        \/ SubmitPuzzleFindOne(r)
        \/ SubmitPuzzleSave(r)
        \/ SubmitBoardFindOne(r)
        \/ \E versioned \in BOOLEAN : SubmitBoardSave(r, versioned)
        \/ \E duplicates \in BOOLEAN : TodayReceive(r, duplicates)
        \/ TodayFindOne(r)
        \/ TodayPuzzleSave(r)

SpecRace == InitUTC /\ [][RaceNext]_vars

(***************************************************************************)
(* Properties.                                                             *)
(***************************************************************************)
\* The player has a game entry for the date.
HasGame(playerId, date) ==
    /\ playerId \in DOMAIN players
    /\ \E k \in DOMAIN players[playerId].games :
           players[playerId].games[k].date = date

\* The submit requests <<playerId, date, result>> of Spec, of SpecBoard
\* and of SpecStreak.
RouteRequests == RouteIds \X RouteDates \X Results(1, 1)
BoardRequests == PlayerIds \X {1} \X Results(MaxGuesses, 0)
StreakRequests == {PlayerName[1]} \X (1..MaxDate) \X Results(1, 0)

\* The step is the submit request q = <<playerId, date, result>>.
IsSubmit(q) ==
    \E attempts \in AttemptsSet :
        Submit(q[1], q[2], q[3].won, q[3].guesses, q[3].time, attempts)

\* The winning submits answered with success for the date.
WinsServed(date) == {s \in served : s.won /\ s.date = date}

\* The daily boards of the date, as indices into the collection.
DailyBoards(date) ==
    {k \in 1..Len(leaderboards) :
        leaderboards[k].date = date /\ leaderboards[k].type = "daily"}

Min(a, b) == IF a <= b THEN a ELSE b

\* C1: once a player has a game entry for a date, a further submit by that
\* player for that date, whatever its result, is answered 400 and changes
\* no player, no puzzle and no leaderboard.
C1_DuplicateRejected ==
    [][\A q \in RouteRequests :
          (HasGame(q[1], q[2]) /\ IsSubmit(q))
              => (res' = 400 /\ UNCHANGED <<players, puzzles, leaderboards>>)]_vars

\* A duplicate submit was rejected: nobody is registered, so the 400 is the
\* submit route's, and the first submit was counted by the puzzle.
C1_Witness ==
    /\ res = 400
    /\ \A q \in DOMAIN players : players[q].username = <<>>
    /\ \E q \in DOMAIN players, d \in DOMAIN puzzles :
           HasGame(q, d) /\ puzzles[d].totalPlayers = 1

\* C2: a submit by a player who has not played the date, for a date that
\* has no puzzle, is answered 404 and changes no player, no puzzle and no
\* leaderboard.
C2_NoPuzzleNoMutation ==
    [][\A q \in RouteRequests :
          (q[2] \notin DOMAIN puzzles /\ ~HasGame(q[1], q[2]) /\ IsSubmit(q))
              => (res' = 404 /\ UNCHANGED <<players, puzzles, leaderboards>>)]_vars

\* Every game entry of the player comes from a submit answered with success.
AllServed(playerId) ==
    playerId \in DOMAIN players =>
        \A k \in DOMAIN players[playerId].games :
            LET g == players[playerId].games[k]
            IN  [playerId |-> playerId, date |-> g.date, won |-> g.won,
                 guesses |-> g.guesses, time |-> g.time] \in served

\* C3: an accepted submit for date d (all earlier submits of the player
\* accepted too) sets currentStreak to currentStreak + 1 when it is a win
\* and lastPlayDate is the calendar day before d, to 1 when it is a win
\* otherwise, and to 0 when it is a loss.
C3_StreakRule ==
    [][\A q \in StreakRequests :
          (~HasGame(q[1], q[2]) /\ AllServed(q[1]) /\ IsSubmit(q)
           /\ res' = 200)
              => LET before == IF q[1] \in DOMAIN players
                               THEN players[q[1]].stats
                               ELSE NewPlayer(q[1]).stats
                     expected ==
                         IF ~q[3].won THEN 0
                         ELSE IF before.lastPlayDate = <<q[2] - 1>>
                              THEN before.currentStreak + 1
                              ELSE 1
                 IN  players'[q[1]].stats.currentStreak = expected]_vars

\* C4: maxStreak is the largest value currentStreak has held; it is at
\* least currentStreak, never decreases, and a losing submit leaves it as
\* it was.
C4_MaxStreakRunningMax ==
    /\ [](\A q \in DOMAIN players :
            /\ players[q].stats.maxStreak = peakStreak[q]
            /\ players[q].stats.maxStreak >= players[q].stats.currentStreak)
    /\ [][/\ \A q \in DOMAIN players :
                players'[q].stats.maxStreak >= players[q].stats.maxStreak
          /\ \A q \in StreakRequests :
                (~q[3].won /\ IsSubmit(q))
                    => players'[q[1]].stats.maxStreak
                           = IF q[1] \in DOMAIN players
                             THEN players[q[1]].stats.maxStreak
                             ELSE 0]_vars

\* A loss after a streak of two: maxStreak stays above currentStreak.
C4_Witness ==
    \E q \in DOMAIN players :
        /\ players[q].stats.maxStreak = 2
        /\ players[q].stats.currentStreak = 0
        /\ Len(players[q].games) = 3
        /\ res = 200

\* C5: the entries of every board are in non-increasing order of score,
\* each score is 1000 - guesses * 100 - time / 10 (here in tenths), and a
\* board holds at most the cap.
C5_BoardSortedAndCapped ==
    \A k \in 1..Len(leaderboards) :
        LET entries == leaderboards[k].entries
        IN  /\ Len(entries) <= LeaderboardCap
            /\ \A i \in 1..Len(entries) :
                   entries[i].score
                       = 10 * 1000 - 10 * entries[i].guesses * 100
                         - entries[i].time
            /\ \A i, j \in 1..Len(entries) :
                   i < j => entries[i].score >= entries[j].score

\* A full board with two different scores, after more wins than the cap.
C5_Witness ==
    /\ Cardinality(WinsServed(1)) > LeaderboardCap
    /\ \E k \in 1..Len(leaderboards) :
           /\ Len(leaderboards[k].entries) = LeaderboardCap
           /\ leaderboards[k].entries[1].score
                  > leaderboards[k].entries[LeaderboardCap].score

\* C6: a losing submit changes no board and creates none; every entry of a
\* board is on a daily board and comes from a winning submit answered with
\* success for the board's date, by the entry's player, with the entry's
\* guesses and time.
C6_OnlyWinsOnBoards ==
    /\ [][\A q \in RouteRequests :
             (~q[3].won /\ IsSubmit(q)) => UNCHANGED leaderboards]_vars
    /\ [](\A k \in 1..Len(leaderboards) :
            /\ leaderboards[k].type = "daily"
            /\ \A i \in 1..Len(leaderboards[k].entries) :
                   LET e == leaderboards[k].entries[i]
                   IN  [playerId |-> e.playerId,
                        date |-> leaderboards[k].date, won |-> TRUE,
                        guesses |-> e.guesses, time |-> e.time] \in served)

\* A date with a win on its board and a loss served after it.
C6_Witness ==
    \E d \in DOMAIN puzzles :
        /\ \E s \in served : s.date = d /\ ~s.won
        /\ \E k \in DailyBoards(d) : Len(leaderboards[k].entries) = 1
        /\ puzzles[d].totalPlayers = 2
        /\ res = 200

\* C7: after n winning submits answered with success for a date, the date
\* has one daily board when n > 0; it holds min(cap, n) entries, and no win
\* left off it has a greater score than an entry on it.  Sorting the
\* scores 800, 950, 900 yields 950, 900, 800.
C7_TopNRetention ==
    /\ \A d \in 1..MaxDate :
           LET wins == WinsServed(d)
               onBoard(s) ==
                   \E k \in DailyBoards(d) :
                       \E i \in 1..Len(leaderboards[k].entries) :
                           leaderboards[k].entries[i].playerId = s.playerId
           IN  /\ Cardinality(DailyBoards(d)) = IF wins = {} THEN 0 ELSE 1
               /\ \A k \in DailyBoards(d) :
                      /\ Len(leaderboards[k].entries)
                             = Min(LeaderboardCap, Cardinality(wins))
                      /\ \A s \in wins :
                             ~onBoard(s) =>
                                 \A i \in 1..Len(leaderboards[k].entries) :
                                     10000 - 1000 * s.guesses - s.time
                                         <= leaderboards[k].entries[i].score
    /\ LET e(g, t) == BoardEntry(NewPlayer("p1"), g, t)
           sorted == SortEntries(<<e(2, 0), e(0, 500), e(1, 0)>>)
       IN  [i \in 1..3 |-> sorted[i].score] = <<9500, 9000, 8000>>

\* Three wins with three different scores: the lowest was evicted.
C7_Witness ==
    /\ Cardinality(WinsServed(1)) = LeaderboardCap + 1
    /\ \E k \in DailyBoards(1) :
           \E s \in WinsServed(1) :
               /\ \A i \in 1..Len(leaderboards[k].entries) :
                      /\ leaderboards[k].entries[i].playerId # s.playerId
                      /\ leaderboards[k].entries[i].score
                             > 10000 - 1000 * s.guesses - s.time
               /\ Len(leaderboards[k].entries) = LeaderboardCap

\* C8: completedPlayers <= totalPlayers in every puzzle, and no step
\* removes a puzzle or decreases its totalPlayers or completedPlayers.
C8_PuzzleCounters ==
    /\ [](\A d \in DOMAIN puzzles :
            puzzles[d].completedPlayers <= puzzles[d].totalPlayers)
    /\ [][\A d \in DOMAIN puzzles :
             /\ d \in DOMAIN puzzles'
             /\ puzzles'[d].totalPlayers >= puzzles[d].totalPlayers
             /\ puzzles'[d].completedPlayers >= puzzles[d].completedPlayers]_vars

\* A puzzle played by a winner and a loser.
C8_Witness ==
    \E d \in DOMAIN puzzles :
        puzzles[d].totalPlayers = 2 /\ puzzles[d].completedPlayers = 1

C10_SolutionFrozen ==
    [][\A d \in DOMAIN puzzles :
          /\ d \in DOMAIN puzzles'
          /\ puzzles'[d].solution = puzzles[d].solution
          /\ puzzles'[d].date = puzzles[d].date]_vars

\* The puzzle of day 1, generated with duplicates allowed, has been played
\* and the next day's puzzle was generated after it.
C10_Witness ==
    /\ DOMAIN puzzles = {1, 2}
    /\ puzzles[1].solution = generateDailyCode(DateChars(1), TRUE)
    /\ puzzles[1].solution # generateDailyCode(DateChars(1), FALSE)
    /\ puzzles[2].solution = generateDailyCode(DateChars(2), FALSE)
    /\ puzzles[1].totalPlayers >= 1
    /\ puzzles[1].date = 1

\* C11: the solution stored for a date is the same whichever request made
\* the first read: it is the sequence a first read with the duplicates
\* flag stores and the sequence a first read without it stores.
C11_SolutionFromDateAlone ==
    \A d \in DOMAIN puzzles :
        \A duplicates \in BOOLEAN :
            puzzles[d].solution = generateDailyCode(DateChars(d), duplicates)

\* The elements of a sequence are pairwise distinct.
Distinct(seq) == \A j, k \in DOMAIN seq : j # k => seq[j] # seq[k]

\* C12: in a call without duplicates, before each turn of the loop the
\* pool has 6, 5, 4, 3 numbers and the selected index lies within it; the
\* code built so far, and the code returned, holds pairwise distinct
\* integers in 1..6, the returned code exactly 4 of them.
C12_NoDuplicates ==
    /\ ~call.allowDuplicates =>
           /\ Len(call.code) = call.i
           /\ Distinct(call.code)
           /\ \A k \in DOMAIN call.code : call.code[k] \in 1..6
           /\ (call.pc = "loop" /\ call.i < 4) =>
                  /\ Len(PoolOf(call)) = 6 - call.i
                  /\ IndexOf(call) \in 0..(Len(PoolOf(call)) - 1)
    /\ \A r \in returned :
           ~r.allowDuplicates =>
               /\ Len(r.code) = 4
               /\ Distinct(r.code)
               /\ \A k \in DOMAIN r.code : r.code[k] \in 1..6

\* The call on "4;>7FGA" returned: its first draw is the largest value of
\* the stream and selected the last number of the pool of 6; the call on
\* "16C4NAI", whose seed is 2^31, returned too.
C12_Witness ==
    /\ call.pc = "idle"
    /\ [dateString |-> <<52, 59, 62, 55, 70, 71, 65>>,
        allowDuplicates |-> FALSE, code |-> <<6, 2, 1, 3>>] \in returned
    /\ hashCode(<<49, 54, 67, 52, 78, 65, 73>>) = <<32768, 0>>
    /\ [dateString |-> <<49, 54, 67, 52, 78, 65, 73>>,
        allowDuplicates |-> FALSE, code |-> <<5, 4, 2, 1>>] \in returned

\* C13: two calls of generateDailyCode with the same string and the same
\* flag returned the same sequence, whatever calls, puzzle reads and
\* submits ran between them; the sequence is the one a call that runs
\* alone returns.
C13_Determinism ==
    /\ \A a, b \in returned :
           (a.dateString = b.dateString
            /\ a.allowDuplicates = b.allowDuplicates) => a.code = b.code
    /\ \A r \in returned :
           r.code = generateDailyCode(r.dateString, r.allowDuplicates)

\* Two calls with the same arguments have returned, one sequence is on
\* record, and a puzzle was generated and played meanwhile.
C13_Witness ==
    /\ call.pc = "idle"
    /\ call.calls = 2
    /\ Cardinality(returned) = 1
    /\ \E r \in returned : r.dateString = DateChars(1) /\ Len(r.code) = 4
    /\ 1 \in DOMAIN puzzles
    /\ puzzles[1].totalPlayers = 1

\* C14: a puzzle's fastestTime is unset when no winning submit was served
\* for its date, and otherwise it is the least time among the winning
\* submits served for the date, a time of 0 included.
C14_FastestTimeIsMinimum ==
    \A d \in DOMAIN puzzles :
        LET times == {s.time : s \in WinsServed(d)}
        IN  IF times = {} THEN puzzles[d].fastestTime = <<>>
            ELSE puzzles[d].fastestTime
                     = <<CHOOSE t \in times : \A u \in times : t <= u>>

\* The step is taken by the request of slot r, which is at `pc` of `route`.
StepOf(r, route, pc) ==
    /\ inflight[r].pc = pc
    /\ inflight[r].route = route
    /\ inflight'[r] # inflight[r]

\* All slots are free.
NoneInFlight == \A r \in Slots : inflight[r].pc = "idle"

\* C15: a submit writes totalPlayers as one more than the value it read,
\* whatever was written since (last write wins); totalPlayers of a date is
\* at least 1 once a submit for it was accepted and at most the number of
\* players holding a game entry for it, so two accepted submits raise it
\* by 1 or by 2.
C15_LostUpdate ==
    /\ [][\A r \in Slots :
             StepOf(r, "submit", "puzzle.save")
                 => puzzles'[inflight[r].date].totalPlayers
                        = inflight[r].readPuzzle.totalPlayers + 1]_vars
    /\ [](\A d \in DOMAIN puzzles :
            /\ puzzles[d].totalPlayers
                   <= Cardinality({q \in DOMAIN players : HasGame(q, d)})
            /\ (\E s \in served : s.date = d) => puzzles[d].totalPlayers >= 1)

\* Two submits for the date were accepted and one increment is lost.
C15_Witness ==
    /\ NoneInFlight
    /\ Cardinality({s \in served : s.date = 1}) = 2
    /\ puzzles[1].totalPlayers = 1

\* C16: with puzzle reads in flight together, the insert of a date that is
\* already stored fails, answers 500 and leaves the collection as it is;
\* no step of a puzzle read changes or removes a stored puzzle, and the
\* record stored under a date is the record of that date.
C16_FirstReadsOnePuzzle ==
    /\ [][\A r \in Slots :
             /\ (StepOf(r, "today", "puzzle.save")
                 /\ inflight[r].date \in DOMAIN puzzles)
                    => (res' = 500 /\ puzzles' = puzzles)
             /\ (StepOf(r, "today", "puzzle.save")
                 \/ StepOf(r, "today", "DailyPuzzle.findOne"))
                    => \A d \in DOMAIN puzzles :
                           d \in DOMAIN puzzles' /\ puzzles'[d] = puzzles[d]]_vars
    /\ [](\A d \in DOMAIN puzzles : puzzles[d].date = d)

\* The insert of the second of two first reads has failed: the puzzle
\* stored is the one generated with duplicates allowed, by the winner.
C16_Witness ==
    /\ NoneInFlight
    /\ res = 500
    /\ players = <<>>
    /\ 1 \in DOMAIN puzzles
    /\ puzzles[1].solution = generateDailyCode(DateChars(1), TRUE)
    /\ puzzles[1].solution # generateDailyCode(DateChars(1), FALSE)

\* C17: a date has at most one daily board, and once wins were accepted
\* for it the board holds min(cap, number of wins) entries, each accepted
\* win being on it while the board is below the cap.
C17_OneBoardPerDate ==
    \A d \in DOMAIN puzzles :
        LET wins == WinsServed(d)
        IN  /\ Cardinality(DailyBoards(d)) <= 1
            /\ wins # {} =>
                   \E k \in DailyBoards(d) :
                       LET entries == leaderboards[k].entries
                       IN  /\ Len(entries)
                                  = Min(LeaderboardCap, Cardinality(wins))
                           /\ Len(entries) < LeaderboardCap =>
                                  \A s \in wins :
                                      \E i \in 1..Len(entries) :
                                          entries[i].playerId = s.playerId

\* C18: for every player gamesPlayed is the number of game entries,
\* gamesWon the number of won entries, stats.totalGuesses the sum of the
\* guesses of the won entries; no two entries share a date, and
\* lastPlayDate is the date of the last entry.
C18_CountersMatchHistory ==
    \A q \in DOMAIN players :
        LET games == players[q].games
            stats == players[q].stats
            wonAt == {k \in DOMAIN games : games[k].won}
        IN  /\ stats.gamesPlayed = Len(games)
            /\ stats.gamesWon = Cardinality(wonAt)
            /\ stats.totalGuesses
                   = SumOver(wonAt, [k \in wonAt |-> games[k].guesses])
            /\ \A j, k \in DOMAIN games :
                   j # k => games[j].date # games[k].date
            /\ games # <<>> => stats.lastPlayDate = <<games[Len(games)].date>>

\* Three entries, submitted out of calendar order, the second one lost, and
\* a fourth submit rejected as a duplicate.
C18_Witness ==
    \E q \in DOMAIN players :
        /\ Len(players[q].games) = 3
        /\ players[q].games[1].date = 3
        /\ players[q].games[3].date = 2
        /\ ~players[q].games[2].won
        /\ players[q].stats.gamesWon = 2
        /\ players[q].stats.lastPlayDate = <<2>>
        /\ res = 400

\* The player has a winning game entry for the date.
WonOn(playerId, date) ==
    \E k \in DOMAIN players[playerId].games :
        /\ players[playerId].games[k].date = date
        /\ players[playerId].games[k].won

\* The number of consecutive calendar days ending at `date` on each of
\* which the player has a winning entry.
RECURSIVE RunEndingAt(_, _)
RunEndingAt(playerId, date) ==
    IF date >= 0 /\ WonOn(playerId, date)
    THEN 1 + RunEndingAt(playerId, date - 1)
    ELSE 0

\* C19: for a player all of whose submits were accepted, in whatever order
\* of dates, currentStreak is the number of consecutive calendar days
\* ending at lastPlayDate on each of which the player has a winning entry.
C19_StreakMatchesHistory ==
    \A q \in DOMAIN players :
        (AllServed(q) /\ players[q].games # <<>>)
            => players[q].stats.currentStreak
                   = RunEndingAt(q, players[q].stats.lastPlayDate[1])

\* C20: for every date that has a puzzle, totalPlayers is the number of
\* players holding a game entry for the date, completedPlayers the number
\* holding a winning entry for it, and the daily board of the date holds
\* min(cap, completedPlayers) entries, no playerId twice.
C20_CrossRecordConsistency ==
    \A d \in DOMAIN puzzles :
        LET holders == {q \in DOMAIN players : HasGame(q, d)}
            winners == {q \in DOMAIN players : WonOn(q, d)}
        IN  /\ puzzles[d].totalPlayers = Cardinality(holders)
            /\ puzzles[d].completedPlayers = Cardinality(winners)
            /\ puzzles[d].completedPlayers > 0 => DailyBoards(d) # {}
            /\ \A k \in DailyBoards(d) :
                   LET entries == leaderboards[k].entries
                   IN  /\ Len(entries)
                              = Min(LeaderboardCap,
                                    puzzles[d].completedPlayers)
                       /\ \A i, j \in 1..Len(entries) :
                              i # j => entries[i].playerId # entries[j].playerId
====
